---- MODULE Spec2Model ----
(***************************************************************************)
(* portreg: the registry package (Registry, its persistence and its range  *)
(* matching) as a state machine.  A Go string is a sequence of characters, *)
(* each character a one-element TLA+ string; a Go slice is a record with   *)
(* its nil flag and its elements; a file is a sequence of at most one      *)
(* content (empty: the file does not exist).                               *)
(***************************************************************************)
EXTENDS Integers, Sequences, FiniteSets, TLC

VARIABLES assignments, blockedPorts, file, tmpFile, last, ioFailures, saving

vars == <<assignments, blockedPorts, file, tmpFile, last, ioFailures, saving>>

(***************************************************************************)
(* Bounds of the model.                                                    *)
(***************************************************************************)
\* AssignPort and AssignNextAvailable are not called once the collection
\* holds this many Assignments.
MaxAssignments == 3

\* At most this many Saves fail in one behaviour.
MaxIOFailures == 1

(***************************************************************************)
(* Characters and the strconv / strings functions isPortInRange uses.      *)
(***************************************************************************)
Digits == <<"0", "1", "2", "3", "4", "5", "6", "7", "8", "9">>

IsDigit(c) == \E d \in 1..10 : Digits[d] = c

DigitVal(c) == (CHOOSE d \in 1..10 : Digits[d] = c) - 1

\* unicode.IsSpace, on the characters of the model
IsSpace(c) == c \in {" ", "\t", "\n", "\r"}

\* a byte that is no valid UTF-8, and U+FFFD, the character encoding/json
\* writes in its place
InvalidByte == "\\xff"

ReplacementChar == "\\ufffd"

\* strings.Contains(s, sep), sep one character
Contains(s, sep) == \E i \in 1..Len(s) : s[i] = sep

\* strings.Index(s, sep), 1-based; called when Contains(s, sep)
Index(s, sep) == CHOOSE i \in 1..Len(s) : s[i] = sep /\ \A j \in 1..(i - 1) : s[j] # sep

\* strings.Split(s, sep), sep one character
RECURSIVE Split(_, _)
Split(s, sep) ==
    IF ~Contains(s, sep)
    THEN <<s>>
    ELSE <<SubSeq(s, 1, Index(s, sep) - 1)>>
            \o Split(SubSeq(s, Index(s, sep) + 1, Len(s)), sep)

RECURSIVE TrimLeft(_)
TrimLeft(s) == IF s # <<>> /\ IsSpace(Head(s)) THEN TrimLeft(Tail(s)) ELSE s

RECURSIVE TrimRight(_)
TrimRight(s) ==
    IF s # <<>> /\ IsSpace(s[Len(s)]) THEN TrimRight(SubSeq(s, 1, Len(s) - 1)) ELSE s

\* strings.TrimSpace
TrimSpace(s) == TrimRight(TrimLeft(s))

\* the value of a sequence of digits
RECURSIVE DigitsValue(_)
DigitsValue(s) ==
    IF s = <<>> THEN 0 ELSE 10 * DigitsValue(SubSeq(s, 1, Len(s) - 1)) + DigitVal(s[Len(s)])

\* strconv.Atoi: an optional sign, then one or more digits, nothing else.
\* (The specs of the model have at most five digits: the out-of-range error
\* of a number beyond 64 bits does not arise.)
Atoi(s) ==
    LET signed == s # <<>> /\ Head(s) \in {"+", "-"}
        body   == IF signed THEN Tail(s) ELSE s
    IN  IF body = <<>> \/ \E i \in 1..Len(body) : ~IsDigit(body[i])
        THEN [err |-> TRUE, n |-> 0]
        ELSE [err |-> FALSE,
              n   |-> IF signed /\ Head(s) = "-" THEN 0 - DigitsValue(body) ELSE DigitsValue(body)]

\* The parsing half of isPortInRange: the bounds a range specification
\* denotes, ok = FALSE where isPortInRange returns false for every port.
parseRange(rangeSpec) ==
    IF Contains(rangeSpec, "-")
    THEN LET parts == Split(rangeSpec, "-")
         IN  IF Len(parts) # 2
             THEN [ok |-> FALSE, start |-> 0, end |-> 0]
             ELSE LET start == Atoi(TrimSpace(parts[1]))
                      end   == Atoi(TrimSpace(parts[2]))
                  IN  IF start.err \/ end.err
                      THEN [ok |-> FALSE, start |-> 0, end |-> 0]
                      ELSE [ok |-> TRUE, start |-> start.n, end |-> end.n]
    ELSE LET singlePort == Atoi(TrimSpace(rangeSpec))
         IN  IF singlePort.err
             THEN [ok |-> FALSE, start |-> 0, end |-> 0]
             ELSE [ok |-> TRUE, start |-> singlePort.n, end |-> singlePort.n]

(***************************************************************************)
(* The data model.                                                         *)
(***************************************************************************)
Assignment(port, description, path) ==
    [Port |-> port, Description |-> description, Path |-> path]

BlockedPort(ports, description) == [Ports |-> ports, Description |-> description]

\* Go slices: the nil slice, and a slice holding the elements of a sequence
NilSlice == [nil |-> TRUE, elems |-> <<>>]

Slice(s) == [nil |-> FALSE, elems |-> s]

\* append(slice, x): never nil
append(slice, x) == [nil |-> FALSE, elems |-> Append(slice.elems, x)]

(***************************************************************************)
(* encoding/json.  A document is the sequence of its members <<key, value>> *)
(* in the order written; an array value is null or holds its items; an     *)
(* object is again a sequence of members.                                  *)
(***************************************************************************)
\* A string as encoding/json writes and reads it: coerced to valid UTF-8,
\* every invalid byte replaced by U+FFFD.
jsonString(s) ==
    [i \in 1..Len(s) |-> IF s[i] = InvalidByte THEN ReplacementChar ELSE s[i]]

\* a member tagged omitempty: left out when the string is empty
omitempty(key, s) == IF s = <<>> THEN <<>> ELSE << <<key, jsonString(s)>> >>

\* Assignment's struct tags: port, description (omitempty), path (omitempty)
marshalAssignment(a) ==
    << <<"port", a.Port>> >> \o omitempty("description", a.Description)
        \o omitempty("path", a.Path)

\* BlockedPort's struct tags: ports, description (omitempty)
marshalBlockedPort(b) ==
    << <<"ports", jsonString(b.Ports)>> >> \o omitempty("description", b.Description)

\* a nil slice is written null, any other slice as an array
marshalAssignments(slice) ==
    IF slice.nil
    THEN [null |-> TRUE, items |-> <<>>]
    ELSE [null  |-> FALSE,
          items |-> [i \in 1..Len(slice.elems) |-> marshalAssignment(slice.elems[i])]]

marshalBlockedPorts(slice) ==
    IF slice.nil
    THEN [null |-> TRUE, items |-> <<>>]
    ELSE [null  |-> FALSE,
          items |-> [i \in 1..Len(slice.elems) |-> marshalBlockedPort(slice.elems[i])]]

\* json.MarshalIndent(registryData{Assignments, BlockedPorts})
MarshalIndent(data) ==
    << <<"assignments", marshalAssignments(data.Assignments)>>,
       <<"blockedPorts", marshalBlockedPorts(data.BlockedPorts)>> >>

hasMember(object, key) == \E i \in 1..Len(object) : object[i][1] = key

member(object, key) == object[CHOOSE i \in 1..Len(object) : object[i][1] = key][2]

\* a string field: the member's value, the empty string when it is absent
stringField(object, key) ==
    IF hasMember(object, key) THEN jsonString(member(object, key)) ELSE <<>>

unmarshalAssignment(object) ==
    [Port        |-> IF hasMember(object, "port") THEN member(object, "port") ELSE 0,
     Description |-> stringField(object, "description"),
     Path        |-> stringField(object, "path")]

unmarshalBlockedPort(object) ==
    [Ports       |-> stringField(object, "ports"),
     Description |-> stringField(object, "description")]

\* an absent or null member leaves the slice nil; an array, also an empty
\* one, makes it non-nil
unmarshalAssignments(object) ==
    IF ~hasMember(object, "assignments") \/ member(object, "assignments").null
    THEN NilSlice
    ELSE [nil   |-> FALSE,
          elems |-> [i \in 1..Len(member(object, "assignments").items) |->
                        unmarshalAssignment(member(object, "assignments").items[i])]]

unmarshalBlockedPorts(object) ==
    IF ~hasMember(object, "blockedPorts") \/ member(object, "blockedPorts").null
    THEN NilSlice
    ELSE [nil   |-> FALSE,
          elems |-> [i \in 1..Len(member(object, "blockedPorts").items) |->
                        unmarshalBlockedPort(member(object, "blockedPorts").items[i])]]

\* json.Unmarshal(data, &regData), regData a zero registryData
Unmarshal(document) ==
    [Assignments  |-> unmarshalAssignments(document),
     BlockedPorts |-> unmarshalBlockedPorts(document)]

(***************************************************************************)
(* Range specifications, inputs and registry files of the model.  In a     *)
(* range specification every element is one character; a description or a *)
(* path is a sequence of runs of valid characters and of invalid bytes.    *)
(***************************************************************************)
Ports3306 == <<"3", "3", "0", "6">>

Ports5432 == <<"5", "4", "3", "2">>

Ports6379 == <<"6", "3", "7", "9">>

Ports8080 == <<"8", "0", "8", "0">>

Ports27017 == <<"2", "7", "0", "1", "7">>

\* " 3100 - 3102 ": white space around both bounds
PortsSpaced == <<" ", "3", "1", "0", "0", " ", "-", " ", "3", "1", "0", "2", " ">>

\* "abc-def": no integers
PortsWords == <<"a", "b", "c", "-", "d", "e", "f">>

\* "3100-3104-3105": three parts
PortsThreeParts ==
    <<"3", "1", "0", "0", "-", "3", "1", "0", "4", "-", "3", "1", "0", "5">>

\* "3105-3100": low > high
PortsReversed == <<"3", "1", "0", "5", "-", "3", "1", "0", "0">>

\* "3100-65534": all of the scanned range but its last port
PortsAlmostAll == <<"3", "1", "0", "0", "-", "6", "5", "5", "3", "4">>

\* "invalid-range": no integers
PortsInvalidRange ==
    <<"i", "n", "v", "a", "l", "i", "d", "-", "r", "a", "n", "g", "e">>

\* "3000-": no upper bound
PortsOpenEnded == <<"3", "0", "0", "0", "-">>

\* "3000 3010": two integers and no hyphen
PortsNoHyphen == <<"3", "0", "0", "0", " ", "3", "0", "1", "0">>

\* the decimal digits of a natural number (strconv.Itoa)
RECURSIVE Itoa(_)
Itoa(n) == IF n < 10 THEN <<Digits[n + 1]>> ELSE Itoa(n \div 10) \o <<Digits[(n % 10) + 1]>>

\* the bounds the rules of the range-matching cases are written with, and
\* the ports they are matched against
RangeBounds == {3000, 3005, 3010, 8080}

RangePorts == {2999, 3000, 3005, 3010, 3011, 5000, 8080, 8081}

\* white space written around a bound: none, or a blank on each side
Paddings == {<<>>, <<" ">>}

\* the rule "low-high" and the rule of a single port
RangeRule(low, high, pad) == pad \o Itoa(low) \o pad \o <<"-">> \o pad \o Itoa(high) \o pad

SingleRule(port, pad) == pad \o Itoa(port) \o pad

\* rules that do not split into two parts or whose parts are no integers
MalformedRules ==
    {PortsWords, PortsInvalidRange, PortsThreeParts, PortsOpenEnded, PortsNoHyphen, <<>>}

RangeSpecs ==
    {Ports3306, Ports5432, Ports6379, Ports8080, Ports27017, PortsSpaced, PortsWords,
     PortsThreeParts, PortsReversed, PortsAlmostAll}
        \cup MalformedRules
        \cup {RangeRule(low, high, pad) : low \in RangeBounds, high \in RangeBounds,
                                          pad \in Paddings}
        \cup {SingleRule(port, pad) : port \in RangeBounds, pad \in Paddings}

\* the ports AssignPort, UnassignPort and IsPortAvailable are called with
Ports == {3100, 3306}

\* the descriptions and paths AssignPort and AssignNextAvailable are called with
Descriptions == {<<>>, <<"db", InvalidByte>>}

Paths == {<<"/srv/db">>}

\* what the file system does to one Save: nothing wrong, or MkdirAll,
\* WriteFile or Rename fails
SaveOutcomes == {"ok", "mkdir", "write", "rename"}

Content(document) == [data |-> document, complete |-> TRUE]

\* what a write that failed leaves of a file: a proper prefix of the
\* document, which is no document
Truncated == [data |-> <<>>, complete |-> FALSE]

Array(items) == [null |-> FALSE, items |-> items]

\* two Assignments, not in the order of their ports; malformed rules and
\* a rule that matches nothing before the rules that match; the rule
\* " 3100 - 3102 " was added after 3100 and 3101 had been assigned
FileFixture ==
    <<Content(<< <<"assignments",
                   Array(<< << <<"port", 3101>> >>,
                            << <<"port", 3100>>, <<"description", <<"web">>>>,
                               <<"path", <<"/srv/web">>>> >> >>)>>,
                 <<"blockedPorts",
                   Array(<< << <<"ports", PortsWords>> >>,
                            << <<"ports", PortsThreeParts>>,
                               <<"description", <<"three parts">>>> >>,
                            << <<"ports", PortsReversed>> >>,
                            << <<"ports", PortsSpaced>> >>,
                            << <<"ports", Ports3306>>,
                               <<"description", <<"MySQL">>>> >> >>)>> >>)>>

\* every port AssignNextAvailable scans is taken: all but the last are
\* blocked, the last is assigned
FileExhausted ==
    <<Content(<< <<"assignments", Array(<< << <<"port", 65535>> >> >>)>>,
                 <<"blockedPorts", Array(<< << <<"ports", PortsAlmostAll>> >> >>)>> >>)>>

\* the registry file when the first process starts: none, or one written
\* by an earlier run and edited by hand
InitialFiles == {<<>>, FileFixture, FileExhausted}

(***************************************************************************)
(* Range matching.                                                         *)
(***************************************************************************)
\* parseRange of every range specification of the model, computed once:
\* isPortInRange parses its specification on every call, to the same bounds
RangeTable == [rangeSpec \in RangeSpecs |-> parseRange(rangeSpec)]

\* isPortInRange with its upper bound left out of the range
inRangeHalfOpen(port, range) == range.ok /\ port >= range.start /\ port < range.end

\* isPortInRange checks if a port is within a range specification
inRange(port, range) == range.ok /\ port >= range.start /\ port <= range.end

isPortInRange(port, rangeSpec) == inRange(port, RangeTable[rangeSpec])

\* isPortBlocked giving up at the first rule that does not match
isPortBlockedFirstRule(port) ==
    /\ blockedPorts.elems # <<>>
    /\ isPortInRange(port, blockedPorts.elems[1].Ports)

\* isPortBlocked ending its loop at the first rule that does not parse
isPortBlockedUntilMalformed(port) ==
    \E i \in 1..Len(blockedPorts.elems) :
        /\ isPortInRange(port, blockedPorts.elems[i].Ports)
        /\ \A j \in 1..(i - 1) : RangeTable[blockedPorts.elems[j].Ports].ok

\* isPortBlocked checks if a port is in any blocked range
isPortBlocked(port) ==
    \E i \in 1..Len(blockedPorts.elems) : isPortInRange(port, blockedPorts.elems[i].Ports)

(***************************************************************************)
(* The Registry.  Its fields are the variables assignments and             *)
(* blockedPorts; the file at its path and the temporary file beside it are *)
(* file and tmpFile.  Every method is an operator from the state (and what *)
(* the file system does to its Save) to what the method leaves behind:     *)
(* the fields, the two files, the error, and which Save it ran.            *)
(***************************************************************************)
startPort == 3100

maxPort == 65535

\* Init's default blocked ports without the last of them
DefaultBlockedPortsShort ==
    [nil |-> FALSE,
     elems |-> <<[Ports |-> Ports3306, Description |-> <<"MySQL default port">>],
                 [Ports |-> Ports5432, Description |-> <<"PostgreSQL default port">>],
                 [Ports |-> Ports6379, Description |-> <<"Redis default port">>],
                 [Ports |-> Ports8080, Description |-> <<"Common HTTP alternative port">>]>>]

\* Init's default blocked ports for common services
DefaultBlockedPorts ==
    Slice(<<BlockedPort(Ports3306, <<"MySQL default port">>),
            BlockedPort(Ports5432, <<"PostgreSQL default port">>),
            BlockedPort(Ports6379, <<"Redis default port">>),
            BlockedPort(Ports8080, <<"Common HTTP alternative port">>),
            BlockedPort(Ports27017, <<"MongoDB default port">>)>>)

\* a method's result when it returns before changing anything
Unchanged(err, detail) ==
    [assignments |-> assignments, blockedPorts |-> blockedPorts, file |-> file,
     tmpFile |-> tmpFile, err |-> err, detail |-> detail, ret |-> 0, save |-> "none"]

hasPort(slice, port) == \E i \in 1..Len(slice.elems) : slice.elems[i].Port = port

\* the first Assignment of the slice with this port
firstWithPort(slice, port) ==
    slice.elems[CHOOSE i \in 1..Len(slice.elems) :
                    /\ slice.elems[i].Port = port
                    /\ \A j \in 1..(i - 1) : slice.elems[j].Port # port]

\* Save writing the registry file itself, without a temporary file
SaveInPlace(newAssignments, newBlockedPorts, io) ==
    LET jsonData ==
            MarshalIndent([Assignments |-> newAssignments, BlockedPorts |-> newBlockedPorts])
        state(err, newFile) ==
            [assignments |-> newAssignments, blockedPorts |-> newBlockedPorts,
             file |-> newFile, tmpFile |-> tmpFile, err |-> err, detail |-> <<>>,
             ret |-> 0, save |-> io]
    IN  CASE io = "mkdir"  -> state("IOError", file)
          [] io = "write"  -> state("IOError", <<Truncated>>)
          [] io = "rename" -> state("IOError", file)
          [] OTHER         -> state("nil", <<Content(jsonData)>>)

\* Save persists the registry to disk: the fields as they are when it is
\* called, through the temporary file
Save(newAssignments, newBlockedPorts, io) ==
    LET jsonData ==
            MarshalIndent([Assignments |-> newAssignments, BlockedPorts |-> newBlockedPorts])
        state(err, newFile, newTmpFile) ==
            [assignments |-> newAssignments, blockedPorts |-> newBlockedPorts,
             file |-> newFile, tmpFile |-> newTmpFile, err |-> err, detail |-> <<>>,
             ret |-> 0, save |-> io]
    IN  CASE io = "mkdir"  -> state("IOError", file, tmpFile)
          [] io = "write"  -> state("IOError", file, <<Truncated>>)
          [] io = "rename" -> state("IOError", file, <<>>)
          [] OTHER         -> state("nil", <<Content(jsonData)>>, <<>>)

\* what New returns: the Registry's fields (the files are left as they are)
Loaded(err, newAssignments, newBlockedPorts) ==
    [assignments |-> newAssignments, blockedPorts |-> newBlockedPorts, file |-> file,
     tmpFile |-> tmpFile, err |-> err, detail |-> <<>>, ret |-> 0, save |-> "none"]

\* load reads the registry from disk, into a Registry New has just made
load ==
    IF ~file[1].complete
    THEN Loaded("ParseError", Slice(<<>>), Slice(<<>>))
    ELSE Loaded("nil", Unmarshal(file[1].data).Assignments,
                Unmarshal(file[1].data).BlockedPorts)

\* New seeding the default blocked ports when there is no file
NewSeedsDefaults ==
    IF file # <<>> THEN load ELSE Loaded("nil", Slice(<<>>), DefaultBlockedPorts)

\* New creates a new Registry instance, loading from file if it exists
New == IF file # <<>> THEN load ELSE Loaded("nil", Slice(<<>>), Slice(<<>>))

\* Init without its check that the file exists
RegistryInitNoExistsCheck(io) == Save(Slice(<<>>), DefaultBlockedPorts, io)

\* Init keeping the Assignments the Registry holds
RegistryInitKeepsAssignments(io) ==
    IF file # <<>>
    THEN Unchanged("AlreadyInitialized", <<>>)
    ELSE Save(assignments, DefaultBlockedPorts, io)

\* Init initializes a new registry file with default blocked ports
RegistryInit(io) ==
    IF file # <<>>
    THEN Unchanged("AlreadyInitialized", <<>>)
    ELSE Save(Slice(<<>>), DefaultBlockedPorts, io)

\* AssignPort without its check of the existing Assignments
AssignPortNoAssignedCheck(port, description, path, io) ==
    IF isPortBlocked(port)
    THEN Unchanged("PortBlocked", <<>>)
    ELSE Save(append(assignments, Assignment(port, description, path)), blockedPorts, io)

\* AssignPort putting the new Assignment first
AssignPortPrepends(port, description, path, io) ==
    IF hasPort(assignments, port)
    THEN Unchanged("PortAlreadyAssigned", firstWithPort(assignments, port).Description)
    ELSE IF isPortBlocked(port)
         THEN Unchanged("PortBlocked", <<>>)
         ELSE Save(Slice(<<Assignment(port, description, path)>> \o assignments.elems),
                   blockedPorts, io)

\* AssignPort with its two checks in the other order
AssignPortBlockedFirst(port, description, path, io) ==
    IF isPortBlocked(port)
    THEN Unchanged("PortBlocked", <<>>)
    ELSE IF hasPort(assignments, port)
         THEN Unchanged("PortAlreadyAssigned", firstWithPort(assignments, port).Description)
         ELSE Save(append(assignments, Assignment(port, description, path)), blockedPorts, io)

\* AssignPort refusing a Registry whose file does not exist
AssignPortNeedsFile(port, description, path, io) ==
    IF file = <<>>
    THEN Unchanged("NotInitialized", <<>>)
    ELSE IF hasPort(assignments, port)
         THEN Unchanged("PortAlreadyAssigned", firstWithPort(assignments, port).Description)
         ELSE IF isPortBlocked(port)
              THEN Unchanged("PortBlocked", <<>>)
              ELSE Save(append(assignments, Assignment(port, description, path)),
                        blockedPorts, io)

\* AssignPort assigns a specific port to a project
AssignPort(port, description, path, io) ==
    IF hasPort(assignments, port)
    THEN Unchanged("PortAlreadyAssigned", firstWithPort(assignments, port).Description)
    ELSE IF isPortBlocked(port)
         THEN Unchanged("PortBlocked", <<>>)
         ELSE Save(append(assignments, Assignment(port, description, path)), blockedPorts, io)

\* IsPortAvailable without its check of the existing Assignments
IsPortAvailableBlockedOnly(port) == ~isPortBlocked(port)

\* IsPortAvailable without its check of the blocked ports
IsPortAvailableAssignedOnly(port) == ~hasPort(assignments, port)

\* IsPortAvailable checks if a port can be assigned
IsPortAvailable(port) ==
    IF hasPort(assignments, port) THEN FALSE ELSE ~isPortBlocked(port)

\* The loop of findNextAvailablePort over the ports from..to, in ascending
\* order: the first one available, -1 when there is none.  The range is
\* halved, the lower half first, which keeps the recursion shallow.
RECURSIVE scanPorts(_, _)
scanPorts(from, to) ==
    IF from > to
    THEN -1
    ELSE IF from = to
         THEN IF IsPortAvailable(from) THEN from ELSE -1
         ELSE LET mid   == (from + to) \div 2
                  found == scanPorts(from, mid)
              IN  IF found # -1 THEN found ELSE scanPorts(mid + 1, to)

\* findNextAvailablePort starting its loop one port late
findNextAvailablePortLate == scanPorts(startPort + 1, maxPort)

\* findNextAvailablePort finds the lowest available port starting from 3100
findNextAvailablePort == scanPorts(startPort, maxPort)

\* AssignNextAvailable once findNextAvailablePort has returned port
assignFound(port, description, path, io) ==
    IF port = -1
    THEN Unchanged("NoPortsAvailable", <<>>)
    ELSE LET assigned == AssignPort(port, description, path, io)
         IN  IF assigned.err # "nil" THEN assigned ELSE [assigned EXCEPT !.ret = port]

\* AssignNextAvailable finds and assigns the next available port
AssignNextAvailable(description, path, io) ==
    assignFound(findNextAvailablePort, description, path, io)

\* the Assignments of the slice but those with this port, in their order
RECURSIVE withoutPort(_, _)
withoutPort(elems, port) ==
    IF elems = <<>>
    THEN <<>>
    ELSE IF Head(elems).Port = port
         THEN withoutPort(Tail(elems), port)
         ELSE <<Head(elems)>> \o withoutPort(Tail(elems), port)

\* UnassignPort moving the last Assignment into the place of the removed one
UnassignPortSwapRemove(port, io) ==
    IF ~hasPort(assignments, port)
    THEN Unchanged("PortNotAssigned", <<>>)
    ELSE LET n == Len(assignments.elems)
             i == CHOOSE k \in 1..n : assignments.elems[k].Port = port
             moved == [assignments.elems EXCEPT ![i] = assignments.elems[n]]
         IN  Save(Slice(SubSeq(moved, 1, n - 1)), blockedPorts, io)

\* UnassignPort without its check that the port was found
UnassignPortAlwaysSaves(port, io) ==
    Save(Slice(withoutPort(assignments.elems, port)), blockedPorts, io)

\* UnassignPort releases a port assignment
UnassignPort(port, io) ==
    IF ~hasPort(assignments, port)
    THEN Unchanged("PortNotAssigned", <<>>)
    ELSE Save(Slice(withoutPort(assignments.elems, port)), blockedPorts, io)

\* ListAssignments returns all current port assignments
ListAssignments == assignments

(***************************************************************************)
(* The state machine: one registry file, and one Registry at a time that   *)
(* methods are called on; New starts over with a Registry loaded from the  *)
(* file.  last is the latest call and what it returned.                    *)
(***************************************************************************)
Call(op, port, description, path, res) ==
    [op |-> op, port |-> port, description |-> description, path |-> path,
     err |-> res.err, detail |-> res.detail, ret |-> res.ret, avail |-> FALSE,
     save |-> res.save]

\* the call returns: its result becomes the state.  (A call that would
\* take the collection beyond the bound of the model is left out.)
Return(call, res) ==
    /\ Len(res.assignments.elems) <= MaxAssignments
    /\ assignments' = res.assignments
    /\ blockedPorts' = res.blockedPorts
    /\ file' = res.file
    /\ tmpFile' = res.tmpFile
    /\ ioFailures' = IF res.save \in {"none", "ok"} THEN ioFailures ELSE ioFailures + 1
    /\ last' = call
    /\ UNCHANGED saving

\* what the file system may do to the Save of the next call
Outcomes == IF ioFailures < MaxIOFailures THEN SaveOutcomes ELSE {"ok"}

\* the processes that may be in a Save of the same path at the same time:
\* two invocations of portreg
Procs == {"first", "second"}

\* a process that is not in a Save
Idle == [pc |-> "idle", doc |-> <<>>, at |-> "none"]

Init ==
    /\ file \in InitialFiles
    /\ tmpFile = <<>>
    /\ assignments = New.assignments
    /\ blockedPorts = New.blockedPorts
    /\ ioFailures = 0
    /\ last = Call("New", 0, <<>>, <<>>, New)
    /\ saving = [proc \in Procs |-> Idle]

Returned(op, port, description, path, res) ==
    Return(Call(op, port, description, path, res), res)

CallNew == New.err = "nil" /\ Returned("New", 0, <<>>, <<>>, New)

CallInit(io) == Returned("Init", 0, <<>>, <<>>, RegistryInit(io))

CallAssignPort(port, description, path, io) ==
    Returned("AssignPort", port, description, path, AssignPort(port, description, path, io))

\* AssignNextAvailable(description, path, io), which finds port
CallAssignNextAvailable(port, description, path, io) ==
    Returned("AssignNextAvailable", 0, description, path,
             assignFound(port, description, path, io))

\* the calls of AssignNextAvailable in a state, port being what
\* findNextAvailablePort returns there
AssignNextAvailableCalls(port) ==
    \E description \in Descriptions, path \in Paths, io \in Outcomes :
        CallAssignNextAvailable(port, description, path, io)

CallUnassignPort(port, io) ==
    Returned("UnassignPort", port, <<>>, <<>>, UnassignPort(port, io))

CallIsPortAvailable(port) ==
    /\ last' = [Call("IsPortAvailable", port, <<>>, <<>>, Unchanged("nil", <<>>)) EXCEPT
                    !.avail = IsPortAvailable(port)]
    /\ UNCHANGED <<assignments, blockedPorts, file, tmpFile, ioFailures, saving>>

Next ==
    \/ CallNew
    \/ \E io \in Outcomes : CallInit(io)
    \/ \E port \in Ports, description \in Descriptions, path \in Paths, io \in Outcomes :
            CallAssignPort(port, description, path, io)
    \/ AssignNextAvailableCalls(findNextAvailablePort)
    \/ \E port \in Ports, io \in Outcomes : CallUnassignPort(port, io)
    \/ \E port \in Ports : CallIsPortAvailable(port)

\* isPortInRange(port, rangeSpec) is called: kind, low and high tell how
\* the rule was written
CallIsPortInRange(port, rangeSpec, kind, low, high) ==
    /\ last' = [op |-> "isPortInRange", port |-> port, rangeSpec |-> rangeSpec,
                kind |-> kind, low |-> low, high |-> high,
                matched |-> isPortInRange(port, rangeSpec)]
    /\ UNCHANGED <<assignments, blockedPorts, file, tmpFile, ioFailures, saving>>

RangeNext ==
    \/ \E port \in RangePorts, low \in RangeBounds, high \in RangeBounds, pad \in Paddings :
            CallIsPortInRange(port, RangeRule(low, high, pad), "range", low, high)
    \/ \E port \in RangePorts, single \in RangeBounds, pad \in Paddings :
            CallIsPortInRange(port, SingleRule(single, pad), "single", single, single)
    \/ \E port \in RangePorts, rangeSpec \in MalformedRules :
            CallIsPortInRange(port, rangeSpec, "malformed", 0, 0)

(***************************************************************************)
(* Save step by step, in processes that run at the same time on one path.  *)
(* saving[proc] is where the process stands in its Save: its pc, the       *)
(* document it writes, and where the file it has opened is found now: at   *)
(* the temporary name, at the registry path once some process has renamed  *)
(* it there, or at no name once another file has been renamed over it.     *)
(***************************************************************************)
\* the documents the processes save: each has loaded the registry after
\* Init and assigned one port
SavedDocuments ==
    {MarshalIndent([Assignments  |-> Slice(<<Assignment(port, <<>>, path)>>),
                    BlockedPorts |-> DefaultBlockedPorts]) : port \in Ports, path \in Paths}

\* os.WriteFile opens path + ".tmp" with O_WRONLY|O_CREATE|O_TRUNC: the
\* file of that name, made now or left there by any process, is empty
SaveOpen(proc, doc) ==
    /\ saving[proc].pc = "idle"
    /\ tmpFile' = <<Truncated>>
    /\ saving' = [saving EXCEPT ![proc] = [pc |-> "opened", doc |-> doc, at |-> "tmp"]]
    /\ UNCHANGED <<assignments, blockedPorts, file, last, ioFailures>>

\* os.WriteFile writes the document into the file it has opened, wherever
\* that file is now, and closes it.  (What the file held is taken to be no
\* longer than the document.)
SaveWrite(proc) ==
    /\ saving[proc].pc = "opened"
    /\ tmpFile' = IF saving[proc].at = "tmp" THEN <<Content(saving[proc].doc)>> ELSE tmpFile
    /\ file' = IF saving[proc].at = "target" THEN <<Content(saving[proc].doc)>> ELSE file
    /\ saving' = [saving EXCEPT ![proc].pc = "written"]
    /\ UNCHANGED <<assignments, blockedPorts, last, ioFailures>>

\* os.Rename(tmpFile, r.path): the file at the temporary name, whoever
\* wrote it last and whoever still has it open, becomes the registry
\* file; when there is none (another process has renamed it) Rename fails
\* and os.Remove finds nothing to remove
SaveRename(proc) ==
    /\ saving[proc].pc = "written"
    /\ IF tmpFile = <<>>
       THEN /\ saving' = [saving EXCEPT ![proc].pc = "failed"]
            /\ UNCHANGED <<file, tmpFile>>
       ELSE /\ file' = tmpFile
            /\ tmpFile' = <<>>
            /\ saving' = [q \in Procs |->
                            [saving[q] EXCEPT
                                !.pc = IF q = proc THEN "done" ELSE @,
                                !.at = CASE @ = "tmp"    -> "target"
                                         [] @ = "target" -> "gone"
                                         [] OTHER        -> @]]
    /\ UNCHANGED <<assignments, blockedPorts, last, ioFailures>>

\* the process dies between two steps of its Save
Crash(proc) ==
    /\ saving[proc].pc \in {"opened", "written"}
    /\ saving' = [saving EXCEPT ![proc] = [pc |-> "crashed", doc |-> <<>>, at |-> "none"]]
    /\ UNCHANGED <<assignments, blockedPorts, file, tmpFile, last, ioFailures>>

\* the process has exited; the next invocation of portreg takes its place
Exit(proc) ==
    /\ saving[proc].pc \in {"done", "failed", "crashed"}
    /\ saving' = [saving EXCEPT ![proc] = Idle]
    /\ UNCHANGED <<assignments, blockedPorts, file, tmpFile, last, ioFailures>>

ConcurrentNext ==
    \/ \E proc \in Procs, doc \in SavedDocuments : SaveOpen(proc, doc)
    \/ \E proc \in Procs : SaveWrite(proc)
    \/ \E proc \in Procs : SaveRename(proc)
    \/ \E proc \in Procs : Crash(proc)
    \/ \E proc \in Procs : Exit(proc)

(***************************************************************************)
(* portreg init in processes that run at the same time on one path: Init   *)
(* looks for the file, and then saves, step by step as above.              *)
(***************************************************************************)
\* the document Init saves: no Assignments, the default blocked ports
InitDocument ==
    MarshalIndent([Assignments |-> Slice(<<>>), BlockedPorts |-> DefaultBlockedPorts])

\* os.Stat(r.path) of Init: with a file there the invocation fails (with
\* ErrRegistryAlreadyInitialized, or in New when the file does not parse),
\* with none it goes on to set the defaults and to Save
InitStat(proc) ==
    /\ saving[proc].pc = "idle"
    /\ saving' = [saving EXCEPT ![proc] =
                    IF file # <<>>
                    THEN [pc |-> "failed", doc |-> <<>>, at |-> "none"]
                    ELSE [pc |-> "checked", doc |-> InitDocument, at |-> "none"]]
    /\ UNCHANGED <<assignments, blockedPorts, file, tmpFile, last, ioFailures>>

\* r.Save() of Init begins: os.WriteFile opens path + ".tmp"
InitOpen(proc) ==
    /\ saving[proc].pc = "checked"
    /\ tmpFile' = <<Truncated>>
    /\ saving' = [saving EXCEPT ![proc].pc = "opened", ![proc].at = "tmp"]
    /\ UNCHANGED <<assignments, blockedPorts, file, last, ioFailures>>

InitRaceNext ==
    \/ \E proc \in Procs : InitStat(proc)
    \/ \E proc \in Procs : InitOpen(proc)
    \/ \E proc \in Procs : SaveWrite(proc)
    \/ \E proc \in Procs : SaveRename(proc)
    \/ \E proc \in Procs : Crash(proc)
    \/ \E proc \in Procs : Exit(proc)

(***************************************************************************)
(* portreg assign, without a port, in processes that have each made their  *)
(* Registry with New before any of them saves: assignments and             *)
(* blockedPorts are what every one of them has loaded, and file is the     *)
(* registry file as their Saves leave it.  Each Save runs to its end       *)
(* before the next one begins.  saving[proc] is what the invocation has    *)
(* done: the port it found, what it returned, the Registry it holds now,   *)
(* and its place among the invocations that have returned.                 *)
(***************************************************************************)
\* how many of the invocations have returned
returned == Cardinality({proc \in Procs : saving[proc].pc = "returned"})

\* what the invocation holds once reg.AssignNextAvailable has returned res
Invocation(port, description, path, io, res) ==
    [pc |-> "returned", port |-> port, description |-> description, path |-> path,
     io |-> io, err |-> res.err, ret |-> res.ret, assignments |-> res.assignments,
     order |-> returned + 1]

\* portreg assign refusing to save once the file is no longer the one it
\* has loaded
RaceAssignChecksFile(proc, port, description, path, io) ==
    /\ saving[proc].pc = "idle"
    /\ LET res == IF \E q \in Procs : saving[q].pc = "returned" /\ saving[q].err = "nil"
                  THEN Unchanged("Conflict", <<>>)
                  ELSE assignFound(port, description, path, io)
       IN  /\ file' = res.file
           /\ tmpFile' = res.tmpFile
           /\ ioFailures' = IF res.save \in {"none", "ok"} THEN ioFailures ELSE ioFailures + 1
           /\ saving' = [saving EXCEPT ![proc] = Invocation(port, description, path, io, res)]
    /\ UNCHANGED <<assignments, blockedPorts, last>>

\* reg.AssignNextAvailable(assignDescription, assignPath) on the Registry
\* the invocation has loaded, port being what findNextAvailablePort returns
\* there: the Registry of the invocation changes, and the file
RaceAssign(proc, port, description, path, io) ==
    /\ saving[proc].pc = "idle"
    /\ LET res == assignFound(port, description, path, io)
       IN  /\ file' = res.file
           /\ tmpFile' = res.tmpFile
           /\ ioFailures' = IF res.save \in {"none", "ok"} THEN ioFailures ELSE ioFailures + 1
           /\ saving' = [saving EXCEPT ![proc] = Invocation(port, description, path, io, res)]
    /\ UNCHANGED <<assignments, blockedPorts, last>>

\* the invocations of RaceAssign in a state
RaceAssigns(port) ==
    \E proc \in Procs, description \in Descriptions, path \in Paths, io \in Outcomes :
        RaceAssign(proc, port, description, path, io)

\* all the invocations have exited; the next ones each make their Registry
\* with registry.New(registryPath), from the file as it is now
RaceLoad ==
    /\ \A proc \in Procs : saving[proc].pc = "returned"
    /\ New.err = "nil"
    /\ Len(New.assignments.elems) < MaxAssignments
    /\ assignments' = New.assignments
    /\ blockedPorts' = New.blockedPorts
    /\ saving' = [proc \in Procs |-> Idle]
    /\ UNCHANGED <<file, tmpFile, last, ioFailures>>

RaceNext ==
    \/ RaceAssigns(findNextAvailablePort)
    \/ RaceLoad

(***************************************************************************)
(* The package called with any int as the port: AssignPort and             *)
(* UnassignPort take what the caller passes.                               *)
(***************************************************************************)
\* port arguments, among them zero and a negative one
AnyPorts == {-1, 0, 3100}

AnyPortNext ==
    \/ \E port \in AnyPorts, description \in Descriptions, path \in Paths, io \in Outcomes :
            CallAssignPort(port, description, path, io)
    \/ AssignNextAvailableCalls(findNextAvailablePort)
    \/ \E port \in AnyPorts, io \in Outcomes : CallUnassignPort(port, io)

\* the Registry of a path where no file exists, and the calls made on it
InitAbsent == Init /\ file = <<>>

SpecAbsent == InitAbsent /\ [][Next]_vars

\* processes saving to one path, from a path where no file exists
SpecConcurrent == InitAbsent /\ [][ConcurrentNext]_vars

\* isPortInRange on its own, called with the rules and ports above
SpecRange == InitAbsent /\ [][RangeNext]_vars

\* processes running portreg assign on one path, each with the Registry
\* it has loaded from the file before any of them saves
SpecRace == Init /\ [][RaceNext]_vars

\* AssignPort, AssignNextAvailable and UnassignPort called with any port
SpecAnyPort == InitAbsent /\ [][AnyPortNext]_vars

\* processes running portreg init on one path where no file exists
SpecInitRace == InitAbsent /\ [][InitRaceNext]_vars

Spec == Init /\ [][Next]_vars

(***************************************************************************)
(* The properties.  A property of a call is stated of the step the call    *)
(* takes: the unprimed variables are the state it is made in, the primed   *)
(* ones the state it leaves, last' the call and what it returned.          *)
(***************************************************************************)
\* the port matches a rule of the blocked collection
MatchesRule(port) ==
    \E i \in 1..Len(blockedPorts.elems) :
        LET range == parseRange(blockedPorts.elems[i].Ports)
        IN  range.ok /\ range.start <= port /\ port <= range.end

Assigned(port) == \E i \in 1..Len(assignments.elems) : assignments.elems[i].Port = port

\* the number of Assignments of the collection with this port
Holders(elems, port) == Cardinality({i \in 1..Len(elems) : elems[i].Port = port})

\* the registry file holds the Registry's fields as Save writes them
Saved(regAssignments, regBlockedPorts, regFile) ==
    regFile = <<Content(MarshalIndent([Assignments  |-> regAssignments,
                                       BlockedPorts |-> regBlockedPorts]))>>

\* C1: in every reachable state, whatever calls (returning an error or not)
\* led to it, no two Assignments of the collection have the same port.
C1_UniquePorts ==
    \A i, j \in 1..Len(assignments.elems) :
        i # j => assignments.elems[i].Port # assignments.elems[j].Port

\* a Registry made on an absent file and initialised, holding two
\* Assignments, on which AssignPort has just failed
C1_Witness ==
    /\ blockedPorts = DefaultBlockedPorts
    /\ Len(assignments.elems) >= 2
    /\ last.op = "AssignPort"
    /\ last.err = "PortAlreadyAssigned"

\* C2, as amended: AssignPort(P, d, p) on a port that is not assigned and
\* matches no rule runs Save and succeeds exactly when Save does.  When it
\* succeeds, the collection is the one before with the Assignment (P, d, p)
\* appended, so that exactly one Assignment has port P, and the file holds
\* it; when Save fails, AssignPort returns its error and the file is as
\* before.
C2_AssignPortAppends ==
    [][(last'.op = "AssignPort" /\ ~Assigned(last'.port) /\ ~MatchesRule(last'.port))
        => /\ last'.save # "none"
           /\ (last'.err = "nil") = (last'.save = "ok")
           /\ last'.err = "nil"
                => /\ assignments'.elems =
                        Append(assignments.elems,
                               [Port |-> last'.port, Description |-> last'.description,
                                Path |-> last'.path])
                   /\ Holders(assignments'.elems, last'.port) = 1
                   /\ Saved(assignments', blockedPorts', file')
           /\ last'.err # "nil" => last'.err = "IOError" /\ file' = file]_vars

\* AssignPort has returned without error, having appended to a collection
\* that was not empty
C2_Witness ==
    /\ last.op = "AssignPort"
    /\ last.err = "nil"
    /\ Len(assignments.elems) >= 2
    /\ assignments.elems[Len(assignments.elems)].Port = last.port

\* C2, as stated: AssignPort(P, d, p) on a port that is not assigned and
\* matches no rule succeeds, and appends the Assignment (P, d, p) after the
\* existing ones, which are unchanged.
C2_AssignPortSucceeds ==
    [][(last'.op = "AssignPort" /\ ~Assigned(last'.port) /\ ~MatchesRule(last'.port))
        => /\ last'.err = "nil"
           /\ assignments'.elems =
                Append(assignments.elems,
                       [Port |-> last'.port, Description |-> last'.description,
                        Path |-> last'.path])
           /\ Holders(assignments'.elems, last'.port) = 1]_vars

\* C3: AssignPort on a port that an Assignment holds fails with
\* PortAlreadyAssigned, the error carrying that Assignment's description;
\* the collections and the files are as before, no Save is run, and exactly
\* one Assignment has that port.
C3_AssignPortAlreadyAssigned ==
    [][(last'.op = "AssignPort" /\ Assigned(last'.port))
        => /\ last'.err = "PortAlreadyAssigned"
           /\ \E i \in 1..Len(assignments.elems) :
                /\ assignments.elems[i].Port = last'.port
                /\ last'.detail = assignments.elems[i].Description
           /\ last'.save = "none"
           /\ UNCHANGED <<assignments, blockedPorts, file, tmpFile>>
           /\ Holders(assignments'.elems, last'.port) = 1]_vars

\* AssignPort has failed on a port whose Assignment has a description
C3_Witness ==
    /\ last.op = "AssignPort"
    /\ last.err = "PortAlreadyAssigned"
    /\ last.detail # <<>>
    /\ Holders(assignments.elems, last.port) = 1

\* C4, as amended: AssignPort on a port that matches a rule and is not
\* assigned fails with PortBlocked; the port is not in the collection
\* afterwards, the collections and the files are as before, no Save is run.
C4_AssignPortBlocked ==
    [][(last'.op = "AssignPort" /\ MatchesRule(last'.port) /\ ~Assigned(last'.port))
        => /\ last'.err = "PortBlocked"
           /\ Holders(assignments'.elems, last'.port) = 0
           /\ last'.save = "none"
           /\ UNCHANGED <<assignments, blockedPorts, file, tmpFile>>]_vars

\* AssignPort has failed with PortBlocked on a Registry that holds Assignments
C4_Witness ==
    /\ last.op = "AssignPort"
    /\ last.err = "PortBlocked"
    /\ assignments.elems # <<>>
    /\ Holders(assignments.elems, last.port) = 0

\* C4, as stated: AssignPort on a port that matches a rule fails with
\* PortBlocked, the port is not in the collection afterwards, and nothing
\* is saved.
C4_AssignPortBlockedAlways ==
    [][(last'.op = "AssignPort" /\ MatchesRule(last'.port))
        => /\ last'.err = "PortBlocked"
           /\ Holders(assignments'.elems, last'.port) = 0
           /\ last'.save = "none"]_vars

\* the bounds of the rules of the blocked collection, in their order
ParsedRules == [i \in 1..Len(blockedPorts.elems) |-> parseRange(blockedPorts.elems[i].Ports)]

\* the port is assigned or matches one of the rules with these bounds
Taken(port, ranges) ==
    \/ Assigned(port)
    \/ \E i \in 1..Len(ranges) :
            ranges[i].ok /\ ranges[i].start <= port /\ port <= ranges[i].end

\* every port findNextAvailablePort scans is assigned or blocked
AllTaken(ranges) == \A port \in startPort..maxPort : Taken(port, ranges)

\* C5: the port AssignNextAvailable returns is the lowest of 3100..65535
\* that is neither assigned nor blocked: every port from 3100 up to it is
\* assigned or blocked, it was neither, and afterwards it is in the
\* collection, appended with the given description and path.
C5_AssignNextAvailableLowest ==
    [][(last'.op = "AssignNextAvailable" /\ last'.err = "nil")
        => /\ last'.ret \in startPort..maxPort
           /\ \A lower \in startPort..(last'.ret - 1) : Assigned(lower) \/ MatchesRule(lower)
           /\ ~Assigned(last'.ret)
           /\ ~MatchesRule(last'.ret)
           /\ assignments'.elems =
                Append(assignments.elems,
                       [Port |-> last'.ret, Description |-> last'.description,
                        Path |-> last'.path])
           /\ Holders(assignments'.elems, last'.ret) = 1]_vars

\* AssignNextAvailable has returned a port, having passed over a port that
\* is assigned and over one that is blocked only
C5_Witness ==
    /\ last.op = "AssignNextAvailable"
    /\ last.err = "nil"
    /\ Holders(assignments.elems, last.ret) = 1
    /\ \E lower \in startPort..(last.ret - 1) : Assigned(lower)
    /\ \E lower \in startPort..(last.ret - 1) : MatchesRule(lower) /\ ~Assigned(lower)

\* C6: AssignNextAvailable fails with NoPortsAvailable exactly when every
\* port of 3100..65535 is assigned or blocked; the collections and the
\* files are then as before, and no Save is run.
C6_NoPortsAvailable ==
    [][last'.op = "AssignNextAvailable"
        => /\ (last'.err = "NoPortsAvailable") = AllTaken(ParsedRules)
           /\ last'.err = "NoPortsAvailable"
                => /\ last'.save = "none"
                   /\ UNCHANGED <<assignments, blockedPorts, file, tmpFile>>]_vars

\* AssignNextAvailable has failed with NoPortsAvailable
C6_Witness ==
    /\ last.op = "AssignNextAvailable"
    /\ last.err = "NoPortsAvailable"
    /\ assignments.elems # <<>>
    /\ blockedPorts.elems # <<>>

\* C7, as amended: UnassignPort(P) on a port that is assigned runs Save and
\* succeeds exactly when Save does.  When it succeeds, the Assignment of P
\* is removed and the others are kept in their order, so that P is no
\* longer in the collection, and the file holds the result; when Save
\* fails, UnassignPort returns its error and the file is as before.
C7_UnassignPortRemoves ==
    [][(last'.op = "UnassignPort" /\ Assigned(last'.port))
        => /\ last'.save # "none"
           /\ (last'.err = "nil") = (last'.save = "ok")
           /\ last'.err = "nil"
                => /\ LET other(a) == a.Port # last'.port
                      IN  assignments'.elems = SelectSeq(assignments.elems, other)
                   /\ Holders(assignments'.elems, last'.port) = 0
                   /\ Saved(assignments', blockedPorts', file')
           /\ last'.err # "nil" => last'.err = "IOError" /\ file' = file]_vars

\* UnassignPort has removed the first of three Assignments and saved the rest
C7_Witness ==
    /\ last.op = "UnassignPort"
    /\ last.err = "nil"
    /\ Len(assignments.elems) = 2
    /\ assignments.elems[1].Port > assignments.elems[2].Port
    /\ Saved(assignments, blockedPorts, file)

\* C7, as stated: UnassignPort(P) on a port that is assigned removes the
\* Assignment of P and keeps the others in their order, P is no longer in
\* the collection, and the result is saved.
C7_UnassignPortSaved ==
    [][(last'.op = "UnassignPort" /\ Assigned(last'.port))
        => /\ LET other(a) == a.Port # last'.port
              IN  assignments'.elems = SelectSeq(assignments.elems, other)
           /\ Holders(assignments'.elems, last'.port) = 0
           /\ Saved(assignments', blockedPorts', file')]_vars

\* C8: UnassignPort on a port that no Assignment holds fails with
\* PortNotAssigned; the collections and the files are as before, and no
\* Save is run.
C8_UnassignPortNotAssigned ==
    [][(last'.op = "UnassignPort" /\ ~Assigned(last'.port))
        => /\ last'.err = "PortNotAssigned"
           /\ last'.save = "none"
           /\ UNCHANGED <<assignments, blockedPorts, file, tmpFile>>]_vars

\* UnassignPort has failed on a Registry that holds other Assignments
C8_Witness ==
    /\ last.op = "UnassignPort"
    /\ last.err = "PortNotAssigned"
    /\ Len(assignments.elems) >= 2

\* C9: IsPortAvailable(P) is true exactly when no Assignment holds P and no
\* rule matches P, and the call changes neither the collections nor the
\* files.
C9_IsPortAvailable ==
    [][last'.op = "IsPortAvailable"
        => /\ last'.avail = (~Assigned(last'.port) /\ ~MatchesRule(last'.port))
           /\ UNCHANGED <<assignments, blockedPorts, file, tmpFile>>]_vars

\* IsPortAvailable has returned false for a port that is blocked only, on a
\* Registry that holds Assignments
C9_Witness ==
    /\ last.op = "IsPortAvailable"
    /\ ~last.avail
    /\ ~Assigned(last.port)
    /\ MatchesRule(last.port)
    /\ assignments.elems # <<>>

\* C10: after a Save that succeeded, loading the file into a fresh Registry
\* gives Assignments equal in port, description and path, and BlockedPorts
\* equal in rule and description, both in the same order.
C10_RoundTrip ==
    last.save = "ok"
        => /\ New.err = "nil"
           /\ New.assignments.elems = assignments.elems
           /\ New.blockedPorts.elems = blockedPorts.elems

\* C11: Init on a path where a file exists fails with AlreadyInitialized,
\* runs no Save and leaves the collections and the files as they are; an
\* Init that succeeds was made where no file existed and creates the file,
\* so a second Init fails and leaves the file of the first unmodified.
C11_InitOnce ==
    [][last'.op = "Init"
        => /\ file # <<>>
                => /\ last'.err = "AlreadyInitialized"
                   /\ last'.save = "none"
                   /\ UNCHANGED <<assignments, blockedPorts, file, tmpFile>>
           /\ file = <<>>
                => /\ last'.save # "none"
                   /\ (last'.err = "nil") = (last'.save = "ok")
           /\ last'.err = "nil"
                => /\ file = <<>>
                   /\ file' # <<>>
                   /\ Saved(assignments', blockedPorts', file')]_vars

\* the second of two calls of Init has failed, the file being the one the
\* first call wrote
C11_Witness ==
    /\ last.op = "Init"
    /\ last.err = "AlreadyInitialized"
    /\ assignments.elems = <<>>
    /\ Len(blockedPorts.elems) = 5
    /\ Saved(assignments, blockedPorts, file)

\* the ports of the default blocked rules
DefaultPortNumbers == {3306, 5432, 6379, 8080, 27017}

\* the rules are exactly one single-port rule for each default port, each
\* with a description
IsDefaultSet(rules) ==
    /\ Len(rules) = Cardinality(DefaultPortNumbers)
    /\ \A i \in 1..Len(rules) :
            /\ ~Contains(rules[i].Ports, "-")
            /\ Atoi(rules[i].Ports).err = FALSE
            /\ rules[i].Description # <<>>
    /\ {Atoi(rules[i].Ports).n : i \in 1..Len(rules)} = DefaultPortNumbers

\* C12: after an Init that succeeded, in memory and in the file, the
\* assignment collection is empty and the blocked collection is the default
\* set: one single-port rule for each of 3306, 5432, 6379, 8080 and 27017,
\* each with a description, whatever the Registry held before.
C12_InitDefaults ==
    [][(last'.op = "Init" /\ last'.err = "nil")
        => /\ assignments'.elems = <<>>
           /\ IsDefaultSet(blockedPorts'.elems)
           /\ file' # <<>>
           /\ file'[1].complete
           /\ Unmarshal(file'[1].data).Assignments.elems = <<>>
           /\ IsDefaultSet(Unmarshal(file'[1].data).BlockedPorts.elems)]_vars

\* Init has succeeded on a Registry one of whose earlier Saves had failed
C12_Witness ==
    /\ last.op = "Init"
    /\ last.err = "nil"
    /\ ioFailures > 0
    /\ assignments.elems = <<>>

\* C13: after an Init that succeeded, the blocked collection has a rule
\* described "MySQL default port", one described "PostgreSQL default port"
\* and one described "Common Ruby on Rails ports".
C13_InitDescriptions ==
    (last.op = "Init" /\ last.err = "nil")
        => \A description \in {<<"MySQL default port">>, <<"PostgreSQL default port">>,
                               <<"Common Ruby on Rails ports">>} :
                \E i \in 1..Len(blockedPorts.elems) :
                    blockedPorts.elems[i].Description = description

\* C14: every call of Init, AssignPort, AssignNextAvailable or UnassignPort
\* either returns without error, the file holding the new collections, or
\* returns an error with the collections in memory as they were before.
C14_Reconciled ==
    [][last'.op \in {"Init", "AssignPort", "AssignNextAvailable", "UnassignPort"}
        => \/ last'.err = "nil" /\ Saved(assignments', blockedPorts', file')
           \/ last'.err # "nil" /\ UNCHANGED <<assignments, blockedPorts>>]_vars

\* C15: when Save fails at MkdirAll, at WriteFile or at Rename, the call
\* returns the error and the registry file is as before, absent or with
\* its previous content, never half-written; after a failed Rename the
\* temporary file is gone.
C15_SaveFailureKeepsFile ==
    [][last'.save \in {"mkdir", "write", "rename"}
        => /\ last'.err = "IOError"
           /\ file' = file
           /\ file' = <<>> \/ file'[1].complete
           /\ last'.save = "rename" => tmpFile' = <<>>]_vars

\* a Rename has failed: the file has its previous content, which is not
\* what the Registry holds now, and there is no temporary file
C15_Witness ==
    /\ last.save = "rename"
    /\ file # <<>>
    /\ file[1].complete
    /\ ~Saved(assignments, blockedPorts, file)
    /\ tmpFile = <<>>

\* C17: New on a path where no file exists returns without error a
\* Registry whose two collections are empty, and creates no file.
C17_NewAbsentFile ==
    [][(last'.op = "New" /\ file = <<>>)
        => /\ last'.err = "nil"
           /\ assignments'.elems = <<>>
           /\ blockedPorts'.elems = <<>>
           /\ file' = <<>>
           /\ tmpFile' = tmpFile]_vars

\* New has been called where no file exists, after a call whose Save failed
C17_Witness ==
    /\ last.op = "New"
    /\ last.err = "nil"
    /\ file = <<>>
    /\ ioFailures > 0
    /\ assignments.elems = <<>>
    /\ blockedPorts.elems = <<>>

\* C19: a port is blocked exactly when some rule of the collection matches
\* it, wherever the rule stands and whatever rules, malformed ones too,
\* stand before it: AssignPort on a port that is not assigned fails with
\* PortBlocked exactly then, IsPortAvailable is false for such a port
\* exactly then, and AssignNextAvailable returns no port that a rule
\* matches and passes over no port but assigned ones and ones a rule matches.
C19_BlockedByAnyRule ==
    [][/\ (last'.op = "AssignPort" /\ ~Assigned(last'.port))
            => (last'.err = "PortBlocked") = MatchesRule(last'.port)
       /\ (last'.op = "IsPortAvailable" /\ ~Assigned(last'.port))
            => last'.avail = ~MatchesRule(last'.port)
       /\ (last'.op = "AssignNextAvailable" /\ last'.err = "nil")
            => /\ ~MatchesRule(last'.ret)
               /\ \A lower \in startPort..(last'.ret - 1) :
                    ~Assigned(lower) => MatchesRule(lower)]_vars

\* AssignPort has failed with PortBlocked on a port that only a rule
\* standing after a malformed rule matches
C19_Witness ==
    /\ last.op = "AssignPort"
    /\ last.err = "PortBlocked"
    /\ \A i \in 1..Len(blockedPorts.elems) :
            LET range == parseRange(blockedPorts.elems[i].Ports)
            IN  (range.ok /\ range.start <= last.port /\ last.port <= range.end)
                    => \E j \in 1..(i - 1) : ~parseRange(blockedPorts.elems[j].Ports).ok

\* C20: in every state reached from an absent file by Init, AssignPort,
\* AssignNextAvailable and UnassignPort (their Saves failing or not) and by
\* New, no Assignment in memory has a port that a rule of the blocked
\* collection matches.
C20_NoAssignedPortBlocked ==
    \A i \in 1..Len(assignments.elems) : ~MatchesRule(assignments.elems[i].Port)

\* a Registry that Init has given its rules and that holds Assignments,
\* one of its Saves having failed
C20_Witness ==
    /\ Len(blockedPorts.elems) = 5
    /\ Len(assignments.elems) >= 2
    /\ ioFailures > 0

\* C18: isPortInRange matches port P against a rule "low-high" exactly when
\* low <= P <= high, both ends included and no port when low > high;
\* against a rule without "-" exactly when P is the integer of the rule;
\* and matches no port against a rule that does not split into two parts
\* or whose parts are no integers.
C18_RangeMatching ==
    last.op = "isPortInRange"
        => /\ last.kind = "range"
                => last.matched = (last.low <= last.port /\ last.port <= last.high)
           /\ last.kind = "single" => last.matched = (last.port = last.low)
           /\ last.kind = "malformed" => ~last.matched

\* a port has matched a rule at its upper end
C18_Witness ==
    /\ last.op = "isPortInRange"
    /\ last.kind = "range"
    /\ last.low < last.high
    /\ last.port = last.high
    /\ last.matched

\* C16: whatever processes Save to the same path at the same time, and
\* wherever one of them crashes, the registry file is absent or holds the
\* complete document one Save wrote: a reader never finds a partly written
\* document.
C16_AtomicPersistence ==
    \/ file = <<>>
    \/ file[1].complete /\ file[1].data \in SavedDocuments

\* C21: Init never replaces a registry file that exists at its path, also
\* when another invocation creates the file between Init's check and its
\* Save: the rename that ends a successful Init happens only where no
\* registry file exists, so of two concurrent Inits at most one succeeds
\* and the file of the one that succeeded is not overwritten.
C21_InitNeverReplaces ==
    [][\A proc \in Procs :
          (saving[proc].pc = "written" /\ saving'[proc].pc = "done") => file = <<>>]_vars

\* C22: when two invocations have both loaded the same file before either
\* saves and each runs AssignNextAvailable, both find the same port, each
\* reports success exactly when a port is left and its own Save succeeds,
\* and once both have reported success the file is the Registry of the
\* later one: what both had loaded and the later one's Assignment alone,
\* one Assignment more where two invocations were given the port.
C22_LostUpdate ==
    \A earlier, later \in Procs :
        (/\ saving[earlier].pc = "returned"
         /\ saving[later].pc = "returned"
         /\ saving[earlier].order < saving[later].order)
        => /\ saving[earlier].port = saving[later].port
           /\ \A proc \in {earlier, later} :
                 /\ (saving[proc].err = "nil")
                        = (saving[proc].port # -1 /\ saving[proc].io = "ok")
                 /\ saving[proc].err = "nil" => saving[proc].ret = saving[proc].port
           /\ (saving[earlier].err = "nil" /\ saving[later].err = "nil")
              => /\ saving[later].assignments.elems
                        = assignments.elems \o
                              <<Assignment(saving[later].port, saving[later].description,
                                           saving[later].path)>>
                 /\ Saved(saving[later].assignments, blockedPorts, file)
                 /\ Len(Unmarshal(file[1].data).Assignments.elems)
                        = Len(assignments.elems) + 1
                 /\ Holders(Unmarshal(file[1].data).Assignments.elems,
                            saving[earlier].ret) = 1

\* both invocations were given the same port and reported success, with
\* descriptions that differ: the file has the later one's only
C22_Witness ==
    \E earlier, later \in Procs :
        /\ saving[earlier].pc = "returned"
        /\ saving[later].pc = "returned"
        /\ saving[earlier].order < saving[later].order
        /\ saving[earlier].err = "nil"
        /\ saving[later].err = "nil"
        /\ saving[earlier].ret = saving[later].ret
        /\ saving[earlier].description # saving[later].description
        /\ assignments.elems # <<>>
        /\ Saved(saving[later].assignments, blockedPorts, file)

\* C23: where no registry file exists, AssignPort of a port that is
\* neither assigned nor blocked, and AssignNextAvailable, need no Init:
\* unless their Save fails they succeed and create the file, which holds
\* the Registry's fields; when they return an error there is still no
\* file.  UnassignPort on a Registry without Assignments returns
\* PortNotAssigned and creates no file.
C23_AssignCreatesFile ==
    [][(file = <<>> /\ last'.op \in {"AssignPort", "AssignNextAvailable", "UnassignPort"})
       => /\ (/\ last'.op = "AssignPort"
              /\ ~Assigned(last'.port)
              /\ ~MatchesRule(last'.port)
              /\ last'.save \in {"none", "ok"})
             => last'.err = "nil"
          /\ (last'.op = "AssignNextAvailable" /\ last'.save \in {"none", "ok"})
             => last'.err = "nil"
          /\ (last'.op = "UnassignPort" /\ assignments.elems = <<>>)
             => last'.err = "PortNotAssigned"
          /\ IF last'.err = "nil"
             THEN file' # <<>> /\ Saved(assignments', blockedPorts', file')
             ELSE file' = <<>>]_vars

\* AssignPort has succeeded and the file it created has no blocked ports:
\* no Init has ever succeeded on the path
C23_Witness ==
    /\ last.op = "AssignPort"
    /\ last.err = "nil"
    /\ file # <<>>
    /\ Unmarshal(file[1].data).BlockedPorts.elems = <<>>
    /\ Unmarshal(file[1].data).Assignments.elems # <<>>

\* C23 as stated: until Init has succeeded on the path (there is no file),
\* AssignPort, AssignNextAvailable and UnassignPort do not succeed and do
\* not create the file.
C23_OnlyInitSucceeds ==
    [][(file = <<>> /\ last'.op \in {"AssignPort", "AssignNextAvailable", "UnassignPort"})
       => (last'.err # "nil" /\ file' = <<>>)]_vars

\* C24: after any sequence of AssignPort (with any integer as the port,
\* zero and negative ones too), AssignNextAvailable and UnassignPort, the
\* port of every Assignment of the collection is greater than 0, and the
\* port AssignNextAvailable has returned lies in 3100..65535.
C24_PositivePorts ==
    /\ \A i \in 1..Len(assignments.elems) : assignments.elems[i].Port > 0
    /\ (last.op = "AssignNextAvailable" /\ last.err = "nil")
       => last.ret \in startPort..maxPort

====
